---- MODULE Spec2Model ----
(***************************************************************************)
(* Model of routine.py: the instance listing, the two health probes, the   *)
(* snapshot-then-terminate retirement, the pruning of old images and the   *)
(* report table, as main() sequences them.                                 *)
(*                                                                         *)
(* A Python value held in a record is written as the text str() gives for *)
(* it ("True", "False", "None", "200"): that is the text format_as_table   *)
(* prints, and Truthy gives the value's truth.  The provider and the       *)
(* network are the environment: every call to them draws its outcome, and  *)
(* the variable calls records each call with its outcome, in order.        *)
(***************************************************************************)
EXTENDS Integers, Sequences, FiniteSets, TLC

\* Bounds of the model.
MaxInst == 2
MaxImg == 3
MaxMainImg == 1
MaxRows == 2

VARIABLES
    pc,                 \* position of main (or of the function run on its own)
    raised,             \* the exception that ended the run, "" when none
    instances,          \* main: what get_instances returned
    results,            \* main: the result records
    idx,                \* index of the for loop main is in
    image_id,           \* create_ami_and_add_tag: image_id
    create_ami_result,  \* main: create_ami_result ("None" before any call)
    terminate_result,   \* main: terminate_result ("None" before any call)
    calls,              \* every provider or network call so far, with its outcome
    clenup_result,      \* what clenup_old_ami returned
    report,             \* what format_as_table returned
    images,             \* clenup_old_ami run on its own: the owned images
    utc,                \* clenup_old_ami run on its own: datetime.utcnow()
    days,               \* clenup_old_ami run on its own: its argument
    data,               \* format_as_table run on its own: the caller's list
    fargs               \* format_as_table run on its own: the other arguments

vars == <<pc, raised, instances, results, idx, image_id, create_ami_result,
          terminate_result, calls, clenup_result, report, images, utc, days,
          data, fargs>>

mainVars == <<instances, results, idx, image_id, create_ami_result,
              terminate_result>>
pruneVars == <<images, utc, days>>
fmtVars == <<data, fargs>>

-----------------------------------------------------------------------------
(* Python values *)

Truthy(v) == v \notin {"False", "None", "", "0"}

Min(a, b) == IF a < b THEN a ELSE b
Max(a, b) == IF a < b THEN b ELSE a

http_valid_codes ==
    {"200", "201", "202", "203", "204", "205", "206",
     "300", "301", "302", "303", "304", "307", "308"}

\* A call: for is the instance it is made for ("" when for none), arg its
\* argument, out what it answered.
Call(op, for, arg, out) == [op |-> op, for |-> for, arg |-> arg, out |-> out]

NoResult == [kind |-> "None", rows |-> <<>>]
NoReport == [ret |-> "None", data |-> <<>>, aliased |-> FALSE, raised |-> ""]
NoArgs == [keys |-> <<>>, header |-> <<>>, sort_by_key |-> "None",
           sort_order_reverse |-> FALSE]

-----------------------------------------------------------------------------
(* get_instances *)

InstanceStates == {"running", "stopped"}

\* The instance the provider lists in place k, in state s.
ProviderInstance(k, s) ==
    [id |-> "i-" \o ToString(k),
     tags |-> <<[Key |-> "Name", Value |-> "egor" \o ToString(k)],
                [Key |-> "FQDN", Value |-> "h" \o ToString(MaxInst + 1 - k)]>>,
     instance_type |-> "t2.micro",
     state |-> [Name |-> s]]

\* The listings the provider may answer with: ids are unique in a listing.
Listings ==
    UNION {{[k \in 1..n |-> ProviderInstance(k, st[k])] :
                st \in [1..n -> InstanceStates]} : n \in 0..MaxInst}

\* The value of the last tag with the given key, None when there is none.
TagValue(tags, key) ==
    LET hits == {i \in 1..Len(tags) : tags[i].Key = key}
    IN IF hits = {} THEN "None"
       ELSE tags[CHOOSE i \in hits : \A j \in hits : j <= i].Value

InstanceRecord(instance) ==
    [instance_name |-> TagValue(instance.tags, "Name"),
     instance_fqdn |-> TagValue(instance.tags, "FQDN"),
     instance_id |-> instance.id,
     instance_type |-> instance.instance_type,
     instance_state |-> instance.state.Name]

QueryOutcomes == {"ok", "ClientError", "Exception"}

\* main line 317 and get_instances: a failed query is logged by either
\* except clause and leaves the local instances unbound, so the for loop
\* that follows raises UnboundLocalError.
get_instances ==
    /\ pc = "start"
    /\ \E out \in QueryOutcomes, listing \in Listings :
        /\ calls' = Append(calls, Call("instances.filter", "", "Name", out))
        /\ IF out = "ok"
           THEN /\ instances' = [k \in 1..Len(listing) |-> InstanceRecord(listing[k])]
                /\ pc' = "probe"
                /\ raised' = raised
           ELSE /\ instances' = instances
                /\ pc' = "crashed"
                /\ raised' = "UnboundLocalError"
    /\ idx' = 1
    /\ UNCHANGED <<results, image_id, create_ami_result, terminate_result,
                   clenup_result, report>>
    /\ UNCHANGED <<pruneVars, fmtVars>>

-----------------------------------------------------------------------------
(* main, first loop: the probes *)

SocketOutcomes == {"True", "False", "raise"}
HttpOutcomes == {"200", "404", "False", "raise"}

\* Mutant of LoopItem: the loop runs over the list from its end.
LoopItemReversed(list, i) == list[Len(list) + 1 - i]

\* The element a for loop over list visits in its i-th iteration.
LoopItem(list, i) == list[i]

\* Mutant of CallsHttp: the HTTP probe is made whatever the socket probe said.
CallsHttpAlways(is_socket_open) == TRUE

\* main lines 333-334: get_http_status_code is called iff the socket is open.
CallsHttp(is_socket_open) == Truthy(is_socket_open)

ResultRecord(instance, is_socket_open, status_code) ==
    [instance_name |-> instance.instance_name,
     instance_fqdn |-> instance.instance_fqdn,
     instance_id |-> instance.instance_id,
     is_socket_open |-> is_socket_open,
     status_code |-> status_code,
     instance_state |-> instance.instance_state]

\* One iteration of the first loop of main (lines 320-352).
probe_instance ==
    /\ pc = "probe"
    /\ idx <= Len(instances)
    /\ LET instance == LoopItem(instances, idx)
           id == instance.instance_id
       IN \E sock \in SocketOutcomes, http \in HttpOutcomes :
            LET c1 == Append(calls, Call("check_socket", id, instance.instance_fqdn, sock))
            IN IF sock = "raise"
               THEN /\ calls' = c1
                    /\ pc' = "crashed"
                    /\ raised' = "socket.gaierror"
                    /\ UNCHANGED <<results, idx>>
               ELSE IF CallsHttp(sock)
               THEN /\ calls' = Append(c1, Call("get_http_status_code", id, instance.instance_fqdn, http))
                    /\ IF http = "raise"
                       THEN /\ pc' = "crashed"
                            /\ raised' = "requests.RequestException"
                            /\ UNCHANGED <<results, idx>>
                       ELSE /\ results' = Append(results, ResultRecord(instance, sock, http))
                            /\ idx' = idx + 1
                            /\ UNCHANGED <<pc, raised>>
               ELSE /\ calls' = c1
                    /\ results' = Append(results, ResultRecord(instance, sock, "None"))
                    /\ idx' = idx + 1
                    /\ UNCHANGED <<pc, raised>>
    /\ UNCHANGED <<instances, image_id, create_ami_result, terminate_result,
                   clenup_result, report>>
    /\ UNCHANGED <<pruneVars, fmtVars>>

\* The first loop is exhausted: main goes on to its second loop (line 354).
probe_done ==
    /\ pc = "probe"
    /\ idx > Len(instances)
    /\ pc' = "retire"
    /\ idx' = 1
    /\ UNCHANGED <<raised, instances, results, image_id, create_ami_result,
                   terminate_result, calls, clenup_result, report>>
    /\ UNCHANGED <<pruneVars, fmtVars>>

-----------------------------------------------------------------------------
(* main, second loop: the retirement *)

\* Mutant of Eligible: the inventory state is not looked at.
EligibleIgnoringState(result) ==
    /\ ~Truthy(result.is_socket_open)
    /\ result.status_code \notin http_valid_codes

\* main line 356: the condition under which an instance is retired.
Eligible(result) ==
    /\ ~Truthy(result.is_socket_open)
    /\ result.status_code \notin http_valid_codes
    /\ result.instance_state = "stopped"

\* Head of the second loop of main (lines 354-356).
retire_next ==
    /\ pc = "retire"
    /\ IF idx > Len(results)
       THEN /\ pc' = "prune"
            /\ idx' = idx
       ELSE IF Eligible(LoopItem(results, idx))
       THEN /\ pc' = "create_image"
            /\ idx' = idx
       ELSE /\ pc' = "retire"
            /\ idx' = idx + 1
    /\ UNCHANGED <<raised, instances, results, image_id, create_ami_result,
                   terminate_result, calls, clenup_result, report>>
    /\ UNCHANGED <<pruneVars, fmtVars>>

\* What create_image may answer: an image id, an empty id, or an error.
CreateImageOutcomes == {"id", "empty", "raise"}
WaitOutcomes == {"ok", "raise"}
TerminateOutcomes == {"ok", "ClientError", "raise"}

ImageIdFor(instance_id) == "ami-" \o instance_id

\* create_ami_and_add_tag lines 146-158: no except clause, an error propagates.
create_image ==
    /\ pc = "create_image"
    /\ LET id == LoopItem(results, idx).instance_id
       IN \E out \in CreateImageOutcomes :
            /\ calls' = Append(calls, Call("create_image", id, id, out))
            /\ CASE out = "id" ->
                      /\ image_id' = ImageIdFor(id)
                      /\ pc' = "wait_image"
                      /\ raised' = raised
                 [] out = "empty" ->
                      /\ image_id' = ""
                      /\ pc' = "wait_image"
                      /\ raised' = raised
                 [] OTHER ->
                      /\ image_id' = "False"
                      /\ pc' = "crashed"
                      /\ raised' = "ClientError"
    /\ UNCHANGED <<instances, results, idx, create_ami_result, terminate_result,
                   clenup_result, report>>
    /\ UNCHANGED <<pruneVars, fmtVars>>

\* create_ami_and_add_tag lines 160-164: the image_available waiter.
wait_image_available ==
    /\ pc = "wait_image"
    /\ \E out \in WaitOutcomes :
        /\ calls' = Append(calls, Call("wait_image_available",
                                     LoopItem(results, idx).instance_id, image_id, out))
        /\ IF out = "ok"
           THEN pc' = "tag" /\ raised' = raised
           ELSE pc' = "crashed" /\ raised' = "WaiterError"
    /\ UNCHANGED <<instances, results, idx, image_id, create_ami_result,
                   terminate_result, clenup_result, report>>
    /\ UNCHANGED <<pruneVars, fmtVars>>

\* create_ami_and_add_tag lines 166-180 and the assignment of main line 358.
create_tags ==
    /\ pc = "tag"
    /\ IF Truthy(image_id)
       THEN \E out \in WaitOutcomes :
              /\ calls' = Append(calls, Call("create_tags", LoopItem(results, idx).instance_id,
                                           image_id, out))
              /\ IF out = "ok"
                 THEN /\ create_ami_result' = "True"
                      /\ pc' = "terminate"
                      /\ raised' = raised
                 ELSE /\ create_ami_result' = create_ami_result
                      /\ pc' = "crashed"
                      /\ raised' = "ClientError"
       ELSE /\ create_ami_result' = "False"
            /\ pc' = "terminate"
            /\ UNCHANGED <<calls, raised>>
    /\ UNCHANGED <<instances, results, idx, image_id, terminate_result,
                   clenup_result, report>>
    /\ UNCHANGED <<pruneVars, fmtVars>>

\* terminate_instance lines 189-194, called at main line 360 whatever
\* create_ami_result is.
terminate_instances ==
    /\ pc = "terminate"
    /\ LET id == LoopItem(results, idx).instance_id
       IN \E out \in TerminateOutcomes :
            /\ calls' = Append(calls, Call("terminate_instances", id, id, out))
            /\ CASE out = "ok" ->
                      /\ pc' = "wait_terminated"
                      /\ UNCHANGED <<terminate_result, raised>>
                 [] out = "ClientError" ->
                      /\ terminate_result' = "False"
                      /\ pc' = "change_state"
                      /\ raised' = raised
                 [] OTHER ->
                      /\ pc' = "crashed"
                      /\ raised' = "Exception"
                      /\ terminate_result' = terminate_result
    /\ UNCHANGED <<instances, results, idx, image_id, create_ami_result,
                   clenup_result, report>>
    /\ UNCHANGED <<pruneVars, fmtVars>>

\* terminate_instance lines 196-204: the instance_terminated waiter.
wait_instance_terminated ==
    /\ pc = "wait_terminated"
    /\ LET id == LoopItem(results, idx).instance_id
       IN \E out \in TerminateOutcomes :
            /\ calls' = Append(calls, Call("wait_instance_terminated", id, id, out))
            /\ CASE out = "ok" ->
                      /\ terminate_result' = "True"
                      /\ pc' = "change_state"
                      /\ raised' = raised
                 [] out = "ClientError" ->
                      /\ terminate_result' = "False"
                      /\ pc' = "change_state"
                      /\ raised' = raised
                 [] OTHER ->
                      /\ pc' = "crashed"
                      /\ raised' = "WaiterError"
                      /\ terminate_result' = terminate_result
    /\ UNCHANGED <<instances, results, idx, image_id, create_ami_result,
                   clenup_result, report>>
    /\ UNCHANGED <<pruneVars, fmtVars>>

\* Mutants of ChangeState: the state is never, or always, overwritten.
ChangeStateNever(result, term_result) == result

ChangeStateAlways(result, term_result) ==
    [result EXCEPT !.instance_state = "terminated"]

\* main lines 362-363: the record after terminate_instance returned.
ChangeState(result, term_result) ==
    IF Truthy(term_result)
    THEN [result EXCEPT !.instance_state = "terminated"]
    ELSE result

change_state ==
    /\ pc = "change_state"
    /\ results' = [results EXCEPT ![idx] = ChangeState(results[idx], terminate_result)]
    /\ idx' = idx + 1
    /\ pc' = "retire"
    /\ UNCHANGED <<raised, instances, image_id, create_ami_result,
                   terminate_result, calls, clenup_result, report>>
    /\ UNCHANGED <<pruneVars, fmtVars>>

-----------------------------------------------------------------------------
(* clenup_old_ami *)

SecondsPerDay == 24 * 60 * 60

\* A datetime: whole seconds and microseconds.
DateTime(s, us) == [s |-> s, us |-> us]

\* datetime < datetime
DtLess(a, b) == a.s < b.s \/ (a.s = b.s /\ a.us < b.us)

\* datetime - timedelta(days=n)
MinusDays(dt, n) == DateTime(dt.s - n * SecondsPerDay, dt.us)

\* A CreationDate "YYYY-MM-DDTHH:MM:SS.mmmZ": secs stands for the text up to
\* the seconds, suffix is the rest.  Line 226 cuts the last five characters
\* and parses what is left as whole seconds.
CreationDate(secs, suffix) == [secs |-> secs, suffix |-> suffix]

ParseCreationDate(cd) == DateTime(cd.secs, 0)

\* Mutant of IsOlder: an image created exactly at the cutoff counts as older.
IsOlderOrEqual(utc_image_created, date_N_days_ago) ==
    ~DtLess(date_N_days_ago, utc_image_created)

\* Line 229: the image is older than the cutoff.
IsOlder(utc_image_created, date_N_days_ago) ==
    DtLess(utc_image_created, date_N_days_ago)

ImageRecord(image, action) ==
    [image_id |-> image.ImageId,
     image_name |-> image.Name,
     image_created |-> image.CreationDate,
     image_state |-> image.State,
     action |-> action]

\* Mutant of DeregisterFailed: the records built so far are returned.
DeregisterFailedPartial(built) == [kind |-> "list", rows |-> built]

\* Lines 235-237: what the pass returns when deregister_image raises ClientError.
DeregisterFailed(built) == [kind |-> "False", rows |-> <<>>]

DeregisterOutcomes == {"ok", "ClientError", "raise"}

\* The for loop of lines 218-250 from image i on: built are the records
\* appended so far, log the deregister calls made so far, outs[i] what
\* deregister_image does for image i if it is called.
RECURSIVE CleanupLoop(_, _, _, _, _, _, _)
CleanupLoop(imgs, outs, now, ndays, i, built, log) ==
    IF i > Len(imgs)
    THEN [kind |-> "list", rows |-> built, calls |-> log, examined |-> i - 1,
          raised |-> ""]
    ELSE LET image == imgs[i]
             utc_image_created == ParseCreationDate(image.CreationDate)
             date_N_days_ago == MinusDays(now, ndays)
         IN IF IsOlder(utc_image_created, date_N_days_ago)
            THEN LET log2 == Append(log, Call("deregister_image", "", image.ImageId, outs[i]))
                 IN CASE outs[i] = "ok" ->
                           CleanupLoop(imgs, outs, now, ndays, i + 1,
                                       Append(built, ImageRecord(image, "deregistered")),
                                       log2)
                      [] outs[i] = "ClientError" ->
                           DeregisterFailed(built) @@
                               [calls |-> log2, examined |-> i, raised |-> ""]
                      [] OTHER ->
                           [kind |-> "None", rows |-> <<>>, calls |-> log2,
                            examined |-> i, raised |-> "Exception"]
            ELSE CleanupLoop(imgs, outs, now, ndays, i + 1,
                             Append(built, ImageRecord(image, "None")), log)

\* clenup_old_ami(days) on the images get_owned_images returned.
Cleanup(imgs, outs, now, ndays) == CleanupLoop(imgs, outs, now, ndays, 1, <<>>, <<>>)

\* The clock and the image catalogue.
NowSecs == 30 * SecondsPerDay
Micros == {0, 1}
RetentionDays == 7

CreationDates ==
    {CreationDate(NowSecs - off, ".000Z") :
        off \in {8 * SecondsPerDay, 7 * SecondsPerDay + 1, 7 * SecondsPerDay,
                 7 * SecondsPerDay - 1, 6 * SecondsPerDay}}
    \cup {CreationDate(NowSecs - 7 * SecondsPerDay, ".999Z")}

OwnedImage(k, cd) ==
    [ImageId |-> "ami-" \o ToString(k), Name |-> "egor" \o ToString(k),
     CreationDate |-> cd, State |-> "available"]

\* The catalogues of at most max images created on the given dates.
ImageLists(max, dates) ==
    UNION {{[k \in 1..n |-> OwnedImage(k, cds[k])] :
                cds \in [1..n -> dates]} : n \in 0..max}

\* A run of main meets an old image, one created at the cutoff second and a
\* new one.
MainCreationDates ==
    {CreationDate(NowSecs - off, ".000Z") :
        off \in {8 * SecondsPerDay, 7 * SecondsPerDay, 6 * SecondsPerDay}}

\* What deregister_image does for each of n images if it is called for it.
\* The pass ends at the first call that fails, so only the place and the
\* kind of the first failure matter.
DeregisterPlans(n) ==
    {[i \in 1..n |-> IF i = f THEN kind ELSE "ok"] :
        f \in 0..n, kind \in DeregisterOutcomes \ {"ok"}}

\* main line 365: clenup_old_ami(7), with get_owned_images inside it.
prune ==
    /\ pc = "prune"
    /\ \/ /\ calls' = Append(calls, Call("describe_images", "", "egor*", "raise"))
          /\ pc' = "crashed"
          /\ raised' = "ClientError"
          /\ UNCHANGED clenup_result
       \/ \E imgs \in ImageLists(MaxMainImg, MainCreationDates), us \in Micros :
            \E outs \in DeregisterPlans(Len(imgs)) :
              LET r == Cleanup(imgs, outs, DateTime(NowSecs, us), RetentionDays)
              IN /\ calls' = Append(calls, Call("describe_images", "", "egor*", "ok")) \o r.calls
                 /\ IF r.raised = ""
                    THEN /\ clenup_result' = [kind |-> r.kind, rows |-> r.rows]
                         /\ pc' = "report"
                         /\ raised' = raised
                    ELSE /\ clenup_result' = clenup_result
                         /\ pc' = "crashed"
                         /\ raised' = r.raised
    /\ UNCHANGED <<mainVars, report>>
    /\ UNCHANGED <<pruneVars, fmtVars>>

\* clenup_old_ami(days) run on its own, on the catalogue and clock of Init.
DaysChoices == {6, 7, 8}

clenup_old_ami ==
    /\ pc = "prune_start"
    /\ \E outs \in DeregisterPlans(Len(images)) :
         LET r == Cleanup(images, outs, utc, days)
         IN /\ calls' = r.calls
            /\ idx' = r.examined
            /\ raised' = r.raised
            /\ clenup_result' = IF r.raised = ""
                                THEN [kind |-> r.kind, rows |-> r.rows]
                                ELSE clenup_result
            /\ pc' = IF r.raised = "" THEN "prune_done" ELSE "crashed"
    /\ UNCHANGED <<instances, results, image_id, create_ami_result,
                   terminate_result, report>>
    /\ UNCHANGED <<pruneVars, fmtVars>>

-----------------------------------------------------------------------------
(* format_as_table *)

\* The strings rows are sorted by, in the order Python compares them.
LexOrder == [i \in 1..(MaxInst + 1) |-> "h" \o ToString(i)] \o <<"x", "zzz">>

StrRank(str) == CHOOSE i \in 1..Len(LexOrder) : LexOrder[i] = str

\* sorted(data, key=itemgetter(key), reverse=reverse): stable either way.
Sorted(list, key, reverse) ==
    LET n == Len(list)
        Before(j, k) ==
            \/ IF reverse
               THEN StrRank(list[j][key]) > StrRank(list[k][key])
               ELSE StrRank(list[j][key]) < StrRank(list[k][key])
            \/ list[j][key] = list[k][key] /\ j < k
        Place(k) == 1 + Cardinality({j \in 1..n : Before(j, k)})
    IN [p \in 1..n |-> list[CHOOSE k \in 1..n : Place(k) = p]]

\* dict(zip(ks, vs))
ZipDict(ks, vs) ==
    LET n == Min(Len(ks), Len(vs))
    IN [k \in {ks[i] : i \in 1..n} |->
            vs[CHOOSE i \in 1..n : ks[i] = k /\ \A j \in 1..n : ks[j] = k => j <= i]]

RECURSIVE Repeat(_, _)
Repeat(str, n) == IF n <= 0 THEN "" ELSE str \o Repeat(str, n - 1)

RECURSIVE MaxLen(_, _, _)
\* max(len(str(column[key])) for column in list), from row i on
MaxLen(list, key, i) ==
    IF i = Len(list) THEN Len(list[i][key])
    ELSE Max(Len(list[i][key]), MaxLen(list, key, i + 1))

\* '%-*s' % (width, value)
Pad(str, width) == str \o Repeat(" ", width - Len(str))

RECURSIVE FormatRow(_, _, _, _)
\* format % tuple(data_to_format), from key i on
FormatRow(element, keys, widths, i) ==
    IF i > Len(keys) THEN "\n"
    ELSE Pad(element[keys[i]], widths[i])
            \o (IF i < Len(keys) THEN " " ELSE "")
            \o FormatRow(element, keys, widths, i + 1)

RECURSIVE FormatRows(_, _, _, _)
FormatRows(list, keys, widths, i) ==
    IF i > Len(list) THEN ""
    ELSE FormatRow(list[i], keys, widths, 1) \o FormatRows(list, keys, widths, i + 1)

\* Lines 274-277: sorted() builds a new list; without a sort key the local
\* name data stays bound to the caller's list.
SortStep(list, sort_by_key, reverse) ==
    IF Truthy(sort_by_key)
    THEN [data |-> Sorted(list, sort_by_key, reverse), aliased |-> FALSE]
    ELSE [data |-> list, aliased |-> TRUE]

\* Lines 280-293: data.insert(0, header_divider), then data.insert(0, header).
HeaderStep(list, keys, header) ==
    IF Len(header) > 0
    THEN LET header_divider == [i \in 1..Len(header) |-> Repeat("-", Len(header[i]))]
         IN <<ZipDict(keys, header), ZipDict(keys, header_divider)>> \o list
    ELSE list

\* format_as_table: ret is the text returned, data the list the local name
\* data ends bound to, aliased whether that list is the caller's own.  zip is
\* taken to return a list, as in the Python 2 the function was written for.
format_as_table(list, keys, header, sort_by_key, reverse) ==
    LET s1 == SortStep(list, sort_by_key, reverse)
        d2 == HeaderStep(s1.data, keys, header)
    IN IF Len(d2) = 0 /\ Len(keys) > 0
       THEN [ret |-> "None", data |-> d2, aliased |-> s1.aliased,
             raised |-> "ValueError"]
       ELSE LET widths == [i \in 1..Len(keys) |-> MaxLen(d2, keys[i], 1)]
            IN [ret |-> FormatRows(d2, keys, widths, 1), data |-> d2,
                aliased |-> s1.aliased, raised |-> ""]

\* The caller's list once format_as_table(list, ...) has returned r.
CallerList(list, r) == IF r.aliased THEN r.data ELSE list

ReportKeys ==
    <<"instance_name", "instance_fqdn", "instance_id", "is_socket_open",
      "status_code", "instance_state">>

\* main lines 368-379.
emit_report ==
    /\ pc = "report"
    /\ LET r == format_as_table(results, ReportKeys, ReportKeys, "instance_fqdn", FALSE)
       IN /\ report' = r
          /\ results' = CallerList(results, r)
          /\ IF r.raised = ""
             THEN pc' = "done" /\ raised' = raised
             ELSE pc' = "crashed" /\ raised' = r.raised
    /\ UNCHANGED <<instances, idx, image_id, create_ami_result, terminate_result,
                   calls, clenup_result>>
    /\ UNCHANGED <<pruneVars, fmtVars>>

\* format_as_table run on its own, on the arguments of Init.
RowValues == [a : {"x", "zzz"}, b : {"yy", "w"}]
RowLists == UNION {[1..n -> RowValues] : n \in 0..MaxRows}
ArgChoices ==
    [keys : {<<"a", "b">>}, header : {<<>>, <<"A", "B">>},
     sort_by_key : {"None", "a"}, sort_order_reverse : BOOLEAN]

format_call ==
    /\ pc = "fmt_start"
    /\ LET r == format_as_table(data, fargs.keys, fargs.header, fargs.sort_by_key,
                                fargs.sort_order_reverse)
       IN /\ report' = r
          /\ data' = CallerList(data, r)
          /\ raised' = r.raised
          /\ pc' = IF r.raised = "" THEN "fmt_done" ELSE "crashed"
    /\ UNCHANGED <<mainVars, calls, clenup_result, fargs>>
    /\ UNCHANGED pruneVars

-----------------------------------------------------------------------------
(* Specifications *)

Idle ==
    /\ raised = ""
    /\ instances = <<>>
    /\ results = <<>>
    /\ idx = 1
    /\ image_id = "False"
    /\ create_ami_result = "None"
    /\ terminate_result = "None"
    /\ calls = <<>>
    /\ clenup_result = NoResult
    /\ report = NoReport

\* A run of main.
Init ==
    /\ pc = "start"
    /\ Idle
    /\ images = <<>>
    /\ utc = DateTime(0, 0)
    /\ days = 0
    /\ data = <<>>
    /\ fargs = NoArgs

Next ==
    \/ get_instances
    \/ probe_instance
    \/ probe_done
    \/ retire_next
    \/ create_image
    \/ wait_image_available
    \/ create_tags
    \/ terminate_instances
    \/ wait_instance_terminated
    \/ change_state
    \/ prune
    \/ emit_report

Spec == Init /\ [][Next]_vars

\* clenup_old_ami on its own.
InitPrune ==
    /\ pc = "prune_start"
    /\ Idle
    /\ images \in ImageLists(MaxImg, CreationDates)
    /\ utc \in {DateTime(NowSecs, us) : us \in Micros}
    /\ days \in DaysChoices
    /\ data = <<>>
    /\ fargs = NoArgs

NextPrune == clenup_old_ami

SpecPrune == InitPrune /\ [][NextPrune]_vars

\* format_as_table on its own.
InitFmt ==
    /\ pc = "fmt_start"
    /\ Idle
    /\ images = <<>>
    /\ utc = DateTime(0, 0)
    /\ days = 0
    /\ data \in RowLists
    /\ fargs \in ArgChoices

NextFmt == format_call

SpecFmt == InitFmt /\ [][NextFmt]_vars

-----------------------------------------------------------------------------
(* Reading the call record *)

\* The place in the listing of the instance with the given id.
PosOf(id) == CHOOSE k \in 1..Len(instances) : instances[k].instance_id = id

\* The places in calls of the calls op made for the instance id.
CallsOf(op, id) == {p \in 1..Len(calls) : calls[p].op = op /\ calls[p].for = id}

ProbeOps == {"check_socket", "get_http_status_code"}
RetireOps == {"create_image", "wait_image_available", "create_tags",
              "terminate_instances", "wait_instance_terminated"}

\* create_ami_and_add_tag was invoked for id: create_image is its first call.
AmiInvoked(id) == CallsOf("create_image", id) # {}
\* terminate_instance was invoked for id: terminate_instances is its first call.
TerminateInvoked(id) == CallsOf("terminate_instances", id) # {}

\* The retirement condition on what was recorded for the k-th instance and
\* the state the inventory reported for it.
RetireCondition(k) ==
    /\ results[k].is_socket_open = "False"
    /\ results[k].status_code \notin http_valid_codes
    /\ instances[k].instance_state = "stopped"

\* The second loop of main has run to its end.
SecondLoopEnded ==
    \/ pc \in {"prune", "report", "done"}
    \/ \E p \in 1..Len(calls) : calls[p].op = "describe_images"

-----------------------------------------------------------------------------
(* C1 *)

-----------------------------------------------------------------------------
(* C2 *)

\* C2: every terminate_instances call for an instance comes after a
\* create_image call for it that returned an image id and after the
\* image_available wait for that image returned.
C2_SnapshotBeforeTerminate ==
    \A p \in 1..Len(calls) :
        calls[p].op = "terminate_instances" =>
            \E q, r \in 1..(p - 1) :
                /\ q < r
                /\ calls[q].op = "create_image"
                /\ calls[q].for = calls[p].for
                /\ calls[q].out = "id"
                /\ calls[r].op = "wait_image_available"
                /\ calls[r].for = calls[p].for
                /\ calls[r].out = "ok"

-----------------------------------------------------------------------------
(* C3 *)

Succeeded(c) == c.op \in ProbeOps \/ c.out \in {"ok", "id"}

\* The provider calls made for the retirement of the instance id, in order.
RetireCallsFor(id) ==
    LET Mine(c) == c.op \in RetireOps /\ c.for = id
        mine == SelectSeq(calls, Mine)
    IN [p \in 1..Len(mine) |-> mine[p].op]

OneStoppedUnreachable ==
    /\ Len(instances) = 1
    /\ instances[1].instance_state = "stopped"
    /\ CallsOf("check_socket", instances[1].instance_id) # {}
    /\ \A p \in CallsOf("check_socket", instances[1].instance_id) :
           calls[p].out = "False"
    /\ \A p \in 1..Len(calls) : Succeeded(calls[p])

\* C3: a finished run over one stopped, unreachable instance in which every
\* provider call succeeded made exactly the calls create_image,
\* wait_image_available, create_tags, terminate_instances and
\* wait_instance_terminated for it, in that order, and the instance's row of
\* the report has instance_state terminated.
C3_EndToEnd ==
    (pc = "done" /\ OneStoppedUnreachable) =>
        /\ RetireCallsFor(instances[1].instance_id) =
               <<"create_image", "wait_image_available", "create_tags",
                 "terminate_instances", "wait_instance_terminated">>
        /\ \E i \in 1..Len(report.data) :
               /\ report.data[i].instance_id = instances[1].instance_id
               /\ report.data[i].instance_state = "terminated"
        /\ results[1].instance_state = "terminated"

C3_Witness == pc = "done" /\ OneStoppedUnreachable

-----------------------------------------------------------------------------
(* C4 *)

\* C4: get_http_status_code is called for an instance only right after
\* check_socket returned true for it; an instance for which check_socket
\* returned false has no get_http_status_code call and, once recorded, the
\* status_code None.
C4_ShortCircuit ==
    /\ \A p \in 1..Len(calls) :
           calls[p].op = "get_http_status_code" =>
               /\ p > 1
               /\ calls[p - 1].op = "check_socket"
               /\ calls[p - 1].for = calls[p].for
               /\ calls[p - 1].out = "True"
    /\ \A p \in 1..Len(calls) :
           (calls[p].op = "check_socket" /\ calls[p].out = "False") =>
               /\ CallsOf("get_http_status_code", calls[p].for) = {}
               /\ PosOf(calls[p].for) <= Len(results) =>
                      results[PosOf(calls[p].for)].status_code = "None"

\* A finished run with one instance whose socket was closed and one whose
\* socket was open.
C4_Witness ==
    /\ pc = "done"
    /\ \E p, q \in 1..Len(calls) :
        /\ calls[p].op = "check_socket" /\ calls[p].out = "False"
        /\ results[PosOf(calls[p].for)].status_code = "None"
        /\ calls[q].op = "get_http_status_code"

-----------------------------------------------------------------------------
(* C5, C6: clenup_old_ami on its own *)

\* The places in calls of the deregister calls for the i-th image.
DeregCalls(i) ==
    {p \in 1..Len(calls) :
        calls[p].op = "deregister_image" /\ calls[p].arg = images[i].ImageId}

\* The i-th image was created strictly before utc - days, its creation time
\* taken to the whole second.
StrictlyEarlier(i) ==
    LET late == images[i].CreationDate.secs - (utc.s - days * SecondsPerDay)
    IN late < 0 \/ (late = 0 /\ utc.us > 0)

PassEnded == pc \in {"prune_done", "crashed"}

\* C5 as claimed: when the pass has ended, a deregister call was issued for
\* an owned image iff it was created strictly before utc - days.
C5_AsClaimed ==
    PassEnded =>
        \A i \in 1..Len(images) : (DeregCalls(i) # {}) <=> StrictlyEarlier(i)

\* C5 as amended: when the pass has ended, a deregister call was issued for
\* an image the pass reached iff it was created strictly before utc - days,
\* and for no image it did not reach; in the list the pass returns an image
\* has the action deregistered iff it was created strictly before the
\* cutoff, and None otherwise (so also when created exactly at the cutoff).
C5_Retention ==
    PassEnded =>
        /\ idx \in 0..Len(images)
        /\ \A i \in 1..idx : (DeregCalls(i) # {}) <=> StrictlyEarlier(i)
        /\ \A i \in (idx + 1)..Len(images) : DeregCalls(i) = {}
        /\ clenup_result.kind = "list" =>
               /\ Len(clenup_result.rows) = Len(images)
               /\ \A i \in 1..Len(images) :
                      /\ clenup_result.rows[i].image_id = images[i].ImageId
                      /\ clenup_result.rows[i].action =
                             IF StrictlyEarlier(i) THEN "deregistered" ELSE "None"

CreatedDaysAgo(i, n) ==
    images[i].CreationDate = CreationDate(utc.s - n * SecondsPerDay, ".000Z")

\* A pass with days = 7 at a whole second over an image 8 days old, one
\* created exactly at the cutoff and one 6 days old: the first is
\* deregistered, the others are not and are returned with action None.
C5_Witness ==
    /\ pc = "prune_done"
    /\ days = 7
    /\ utc.us = 0
    /\ clenup_result.kind = "list"
    /\ \E i, j, k \in 1..Len(images) :
        /\ CreatedDaysAgo(i, 8) /\ DeregCalls(i) # {}
        /\ CreatedDaysAgo(j, 7) /\ DeregCalls(j) = {}
        /\ clenup_result.rows[j].action = "None"
        /\ CreatedDaysAgo(k, 6) /\ DeregCalls(k) = {}

\* C6: when a deregister call failed with a client error, the pass returned
\* False and none of the records it had built, the failed call is the last
\* call it made, and no image after the failing one was reached.
C6_AbortOnError ==
    \A p \in 1..Len(calls) :
        (pc = "prune_done" /\ calls[p].out = "ClientError") =>
            /\ clenup_result = [kind |-> "False", rows |-> <<>>]
            /\ p = Len(calls)
            /\ idx <= Len(images)
            /\ calls[p].arg = images[idx].ImageId
            /\ \A i \in (idx + 1)..Len(images) : DeregCalls(i) = {}

\* A pass over three old images: the first is deregistered, the call for the
\* second fails, the third is left alone.
C6_Witness ==
    /\ pc = "prune_done"
    /\ Len(images) = 3
    /\ \A i \in 1..3 : StrictlyEarlier(i)
    /\ Len(calls) = 2
    /\ calls[1].out = "ok"
    /\ calls[2].out = "ClientError"
    /\ clenup_result.kind = "False"

-----------------------------------------------------------------------------
(* C7 *)

\* C7: when the instance query failed, no exception leaves get_instances:
\* main goes on to its loops.
C7_QueryFailureAbsorbed ==
    (Len(calls) > 0 /\ calls[1].op = "instances.filter" /\ calls[1].out # "ok") =>
        (raised = "" /\ pc # "crashed")

-----------------------------------------------------------------------------
(* C8 *)

\* C8 as claimed: when an instance is probed, every eligible instance listed
\* before it has already been retired.
C8_AsClaimed ==
    \A q \in 1..Len(calls) :
        calls[q].op = "check_socket" =>
            \A k \in 1..(PosOf(calls[q].for) - 1) :
                RetireCondition(k) =>
                    \E p \in 1..(q - 1) :
                        /\ calls[p].op = "terminate_instances"
                        /\ calls[p].for = instances[k].instance_id

OpRank(op) ==
    CASE op = "check_socket" -> 1
      [] op = "get_http_status_code" -> 2
      [] op = "create_image" -> 3
      [] op = "wait_image_available" -> 4
      [] op = "create_tags" -> 5
      [] op = "terminate_instances" -> 6
      [] op = "wait_instance_terminated" -> 7
      [] OTHER -> 0

\* C8 as amended: main works in two passes, each in listing order and one
\* instance at a time.  No probe follows a retirement call; the probes of
\* an instance come before those of the instances listed after it; the
\* retirement calls of an instance come before those of the instances
\* listed after it; and the calls for one instance come in the order
\* check_socket, get_http_status_code, create_image, wait, create_tags,
\* terminate_instances, wait.
C8_TwoPasses ==
    \A p, q \in 1..Len(calls) :
        (p < q /\ calls[p].for # "" /\ calls[q].for # "") =>
            /\ calls[p].op \in RetireOps => calls[q].op \in RetireOps
            /\ (calls[p].op \in ProbeOps <=> calls[q].op \in ProbeOps) =>
                   PosOf(calls[p].for) <= PosOf(calls[q].for)
            /\ calls[p].for = calls[q].for => OpRank(calls[p].op) < OpRank(calls[q].op)

\* A finished run that retired two instances.
C8_Witness ==
    /\ pc = "done"
    /\ Len(instances) >= 2
    /\ TerminateInvoked(instances[1].instance_id)
    /\ TerminateInvoked(instances[2].instance_id)

-----------------------------------------------------------------------------
(* C9 *)

TerminateFailed(id) ==
    \E p \in 1..Len(calls) :
        /\ calls[p].op \in {"terminate_instances", "wait_instance_terminated"}
        /\ calls[p].for = id
        /\ calls[p].out = "ClientError"

TerminateSucceeded(id) ==
    \E p \in CallsOf("wait_instance_terminated", id) : calls[p].out = "ok"

\* C9: a client error from terminate_instances or from the terminated wait
\* makes terminate_instance return False and does not end the run; a record
\* has the state terminated only if terminate_instance returned True for
\* its instance, and keeps the inventory state otherwise; every other field
\* of every record is what the listing and the probes gave.
C9_TerminateFailure ==
    /\ (pc = "change_state" /\ calls[Len(calls)].out = "ClientError") =>
           terminate_result = "False"
    /\ (pc = "crashed" /\ Len(calls) > 0) =>
           ~(/\ calls[Len(calls)].op \in {"terminate_instances",
                                           "wait_instance_terminated"}
             /\ calls[Len(calls)].out = "ClientError")
    /\ \A k \in 1..Len(results) :
           LET id == instances[k].instance_id
           IN /\ results[k].instance_state # instances[k].instance_state =>
                     /\ results[k].instance_state = "terminated"
                     /\ TerminateSucceeded(id)
              /\ TerminateFailed(id) =>
                     results[k].instance_state = instances[k].instance_state
              /\ results[k].instance_id = id
              /\ results[k].instance_name = instances[k].instance_name
              /\ results[k].instance_fqdn = instances[k].instance_fqdn
              /\ \E p \in CallsOf("check_socket", id) :
                     results[k].is_socket_open = calls[p].out
              /\ \/ /\ results[k].status_code = "None"
                    /\ CallsOf("get_http_status_code", id) = {}
                 \/ \E p \in CallsOf("get_http_status_code", id) :
                        results[k].status_code = calls[p].out

\* A finished run in which the termination of the first instance failed with
\* a client error, the second instance was retired after it, the pruner ran
\* and the report was returned.
C9_Witness ==
    /\ pc = "done"
    /\ Len(instances) >= 2
    /\ TerminateFailed(instances[1].instance_id)
    /\ results[1].instance_state = "stopped"
    /\ TerminateSucceeded(instances[2].instance_id)
    /\ results[2].instance_state = "terminated"
    /\ clenup_result.kind # "None"
    /\ report.ret # "None"

-----------------------------------------------------------------------------
(* C10: format_as_table on its own *)

\* C10: the call leaves the caller's list as it was.
C10_NoSideEffect ==
    [][(pc = "fmt_start" /\ pc' # "fmt_start") => data' = data]_vars

====
